---- MODULE Spec2Model ----
\* Capture-session subsystem of the trichoscope viewer (src/app.py):
\* the SafeCamera class, detect_cameras and the Streamlit script main().
\*
\* The video transport (cv2.VideoCapture) is the environment.  A handle is an
\* integer identity; `opened` is the set of handles the transport has opened
\* and on which no release call has succeeded yet, `owed` the set of opened
\* handles on which the source has made no release call yet.  Object
\* finalizers of the runtime are not modelled: a handle leaves these sets only
\* through a release call written in the source.
EXTENDS Integers, Sequences, FiniteSets, TLC

\* ---------------------------------------------------------------- constants

\* self.cap = None
NULL == 0
\* cv2.CAP_ANY, cv2.CAP_V4L and cv2.CAP_V4L2 (OpenCV videoio: CAP_V4L2 = CAP_V4L)
CAP_ANY == 0
CAP_V4L == 200
CAP_V4L2 == 200
\* the auto-detect index of cv2.VideoCapture(-1)
AUTO == -1
\* st.session_state.last_capture = None
NoFrame == 0
\* range(4): the device slots probed by detect_cameras
NumCandidates == 4
\* cv2 splits an integer descriptor into backend id and index by hundreds
DomainStep == 100

\* number of initialize() calls explored in one behaviour
MaxOpens == 2
\* number of detect_cameras() calls explored in one behaviour of Spec
MaxDetects == 1
\* highest slot that holds a device in the transports explored
MaxDeviceSlot == 0
\* number of frames captured into last_capture in one behaviour
MaxCaptures == 2

Slots == 0 .. (NumCandidates - 1)
\* The indices a caller asks for: auto, the device slots and an empty slot.
EmptySlot == NumCandidates - 2
Indices == {AUTO, EmptySlot} \cup (0 .. MaxDeviceSlot)
Backends == {CAP_ANY, CAP_V4L}
Pairs == Slots \X Backends
DevicePairs == (0 .. MaxDeviceSlot) \X Backends

\* What one physical (slot, backend) path does when a handle is opened on it:
\* "absent" gives a handle that is not opened, "zombie" one that opens and
\* delivers no frame, "works" one that opens and reads; on the others the
\* named call raises (cv2.VideoCapture, isOpened, set, read).
Kinds == {"absent", "works", "zombie",
          "open_raises", "isopened_raises", "set_raises", "read_raises"}

VARIABLES
    hasSession,        \* 'camera' in st.session_state
    camera_active,     \* st.session_state.camera_active
    last_capture,      \* st.session_state.last_capture (NoFrame or a frame)
    available_cameras, \* st.session_state.available_cameras
    pc,                \* where the current script run stands
    rendered,          \* the buttons the page shows
    constructed,       \* SafeCamera objects constructed
    captures,          \* frames captured so far
    pressed,           \* the button the last script run handled ("none": no button)
    dev,          \* transport: [Pairs -> Kinds]
    cap,          \* SafeCamera.cap (NULL or a handle)
    initialized,  \* SafeCamera.initialized
    opened,       \* handles opened and not released
    owed,         \* handles opened on which release was never called
    nextId,       \* handles created so far
    tested,       \* handles whose test read in initialize succeeded
    lastGood,     \* handle of the last open attempt that returned success
    opens,        \* initialize() calls made
    detects,      \* detect_cameras() calls made
    call          \* the last call: what it was, what it returned, what it did

camVars == <<cap, initialized, opened, owed, nextId, tested, lastGood>>
uiVars == <<hasSession, camera_active, last_capture, available_cameras, pc, rendered,
            constructed, captures, pressed>>
vars == <<hasSession, camera_active, last_capture, available_cameras, pc, rendered,
          constructed, captures, pressed,
          dev, cap, initialized, opened, owed, nextId, tested, lastGood, opens, detects,
          call>>

\* ------------------------------------------------------------ the transport

\* The transports explored: at most two (slot, backend) paths are not absent.
Transports ==
    { [r \in Pairs |-> IF r = p THEN k1 ELSE IF r = q THEN k2 ELSE "absent"] :
        p \in DevicePairs, q \in DevicePairs, k1 \in Kinds, k2 \in Kinds }

\* cv2.VideoCapture(int): "camera_id + domain_offset" is split by hundreds.
DecodeBackend(arg) == IF arg >= DomainStep THEN (arg \div DomainStep) * DomainStep ELSE CAP_ANY
DecodeIndex(arg) == IF arg >= DomainStep THEN arg % DomainStep ELSE arg

\* The slots of a backend that are not absent, for the auto index.
Present(d, b) == { i \in Slots : d[<<i, b>>] # "absent" }
FirstPresent(d, b) == CHOOSE i \in Present(d, b) : \A j \in Present(d, b) : i <= j

\* What opening index i on backend b does on transport d: the auto index
\* takes the first slot of the backend that holds a device.
ProbePair(d, i, b) ==
    IF b \notin Backends THEN "absent"
    ELSE IF i = AUTO
         THEN IF Present(d, b) = {} THEN "absent" ELSE d[<<FirstPresent(d, b), b>>]
    ELSE IF i \in Slots THEN d[<<i, b>>]
    ELSE "absent"

\* What opening the descriptor `arg` does on transport d.
Probe(d, arg) == ProbePair(d, DecodeIndex(arg), DecodeBackend(arg))

\* ------------------------------------------------------- SafeCamera methods
\* A method takes the object's state s and returns [s, ret, exc]: the state
\* it leaves, the value returned, and whether an exception leaves the method.

Cam == [cap |-> cap, initialized |-> initialized, opened |-> opened, owed |-> owed,
        nextId |-> nextId, tested |-> tested, lastGood |-> lastGood,
        hw |-> {}, log |-> <<>>, val |-> <<>>, mine |-> {}, raised |-> FALSE]

\* The per-call trace starts empty: hw the kinds of hardware calls made, log the
\* open attempts, val the list built, mine the handles the call held or opened,
\* raised whether a hardware call raised.
Fresh(s) == [s EXCEPT !.hw = {}, !.log = <<>>, !.val = <<>>, !.mine = {}, !.raised = FALSE]

Ret(s, r) == [s |-> s, ret |-> r, exc |-> FALSE]
Raise(s) == [s |-> [s EXCEPT !.raised = TRUE], ret |-> "raised", exc |-> TRUE]

\* A try block without its except clause: the exception leaves the method.
CatchNothing(r, handled) == r

\* except Exception: the handler's value replaces the exception.
Catch(r, handled) == IF r.exc THEN Ret(r.s, handled) ELSE r

\* cap.release() on handle h; `fault` makes the transport's release raise.
HwRelease(s, h, fault) ==
    LET s1 == [s EXCEPT !.hw = @ \cup {"release"}, !.owed = @ \ {h}]
    IN  IF fault THEN Raise(s1)
        ELSE Ret([s1 EXCEPT !.opened = @ \ {h}], "None")

\* lines 97-100
ReleaseBody(s, fault) ==
    IF s.cap # NULL
    THEN LET r == HwRelease(s, s.cap, fault)
         IN  IF r.exc THEN r
             ELSE Ret([r.s EXCEPT !.cap = NULL, !.initialized = FALSE], "None")
    ELSE Ret([s EXCEPT !.cap = NULL, !.initialized = FALSE], "None")

\* release(): lines 95-102
Release(s, fault) == Catch(ReleaseBody(s, fault), "None")

\* attempts: lines 30-37
Attempts(index) ==
    << index, index + CAP_V4L, index + CAP_V4L2,
       AUTO, AUTO + CAP_V4L, AUTO + CAP_V4L2 >>

Logged(s, arg, kind) ==
    [s EXCEPT !.log = Append(@, [arg |-> arg, kind |-> kind,
                                  held |-> Cardinality(s.owed \cap s.mine)])]

\* One pass of the loop body, lines 41-56, before its except clause.
\* ret "True" is `return True`; ret "next" falls through to the next attempt.
AttemptBody(s, d, arg, fault) ==
    LET kind == Probe(d, arg)
        s0 == [Logged(s, arg, kind) EXCEPT !.hw = @ \cup {"open"}]
        h == s.nextId + 1
        \* self.cap = attempt()
        s1 == [s0 EXCEPT !.cap = h, !.nextId = h, !.mine = @ \cup {h}]
        \* the handle reports isOpened()
        s2 == [s1 EXCEPT !.opened = @ \cup {h}, !.owed = @ \cup {h}]
        \* ret, frame = self.cap.read()
        s3 == [s2 EXCEPT !.hw = @ \cup {"set", "read"}]
    IN  CASE kind = "open_raises" -> Raise(s0)
          [] kind = "absent" -> Ret(s1, "next")
          [] kind = "isopened_raises" -> Raise(s2)
          [] kind = "set_raises" -> Raise([s2 EXCEPT !.hw = @ \cup {"set"}])
          [] kind = "read_raises" -> Raise(s3)
          [] kind = "works" ->
                Ret([s3 EXCEPT !.initialized = TRUE, !.tested = @ \cup {h},
                               !.lastGood = h], "True")
          [] kind = "zombie" ->
                LET r == HwRelease(s3, h, fault)
                IN  IF r.exc THEN r ELSE Ret(r.s, "next")

\* for i, attempt in enumerate(attempts): lines 39-62
RECURSIVE AttemptLoop(_, _, _, _, _)
AttemptLoop(s, d, args, k, fault) ==
    IF k > Len(args) THEN Ret(s, "False")
    ELSE LET r == Catch(AttemptBody(s, d, args[k], fault), "next")
         IN  IF r.exc \/ r.ret = "True" THEN r
             ELSE AttemptLoop(r.s, d, args, k + 1, fault)

\* lines 24-62, inside the outer try
InitializeBody(s, d, index, fault) ==
    LET s0 == [s EXCEPT !.mine = {s.cap} \ {NULL}]
        s1 == IF s.cap # NULL THEN Release(s0, fault).s ELSE s0
    IN  AttemptLoop(s1, d, Attempts(index), 1, fault)

\* initialize(index): lines 22-67
Initialize(s, d, index, fault) ==
    LET r == InitializeBody(s, d, index, fault)
    IN  IF r.exc THEN Ret(Release(r.s, fault).s, "False") ELSE r

\* set_resolution() without the guard of line 71.
SetResolutionUnguarded(s, out) ==
    Catch(IF s.cap = NULL \/ out = "raise"
          THEN Raise([s EXCEPT !.hw = @ \cup {"set"}])
          ELSE Ret([s EXCEPT !.hw = @ \cup {"set", "get"}], "actual"),
          "None")

\* set_resolution(width, height): lines 69-84; `out` is what cap.set/get do.
SetResolution(s, out) ==
    IF ~s.initialized THEN Ret(s, "None")
    ELSE Catch(IF s.cap = NULL \/ out = "raise"
               THEN Raise([s EXCEPT !.hw = @ \cup {"set"}])
               ELSE Ret([s EXCEPT !.hw = @ \cup {"set", "get"}], "actual"),
               "None")

\* read() that gives the session up when the device delivers no frame.
ReadClosesOnFailure(s, out) ==
    IF ~s.initialized \/ s.cap = NULL THEN Ret(s, "False")
    ELSE LET s1 == [s EXCEPT !.hw = @ \cup {"read"}]
         IN  IF out = "frame" /\ s.cap \in s.opened THEN Ret(s1, "True")
             ELSE Ret(Release(s1, FALSE).s, "False")

\* read() without the guard of line 87.
ReadUnguarded(s, out) ==
    LET s1 == [s EXCEPT !.hw = @ \cup {"read"}]
    IN  Catch(IF s.cap = NULL \/ out = "raise" THEN Raise(s1)
              ELSE IF out = "frame" /\ s.cap \in s.opened THEN Ret(s1, "True")
              ELSE Ret(s1, "False"),
              "False")

\* read(): lines 86-93; `out` is what cap.read() does on an opened handle.
\* A handle that is not opened delivers no frame.
Read(s, out) ==
    IF ~s.initialized \/ s.cap = NULL THEN Ret(s, "False")
    ELSE LET s1 == [s EXCEPT !.hw = @ \cup {"read"}]
         IN  Catch(IF out = "raise" THEN Raise(s1)
                   ELSE IF out = "frame" /\ s.cap \in s.opened THEN Ret(s1, "True")
                   ELSE Ret(s1, "False"),
                   "False")

\* ----------------------------------------------------------- detect_cameras

\* One pass of the loop body, lines 114-120, before its except clause.
\* s.val is available_cameras; the handle is the local `cap`, not self.cap.
DetectBody(s, d, i, fault) ==
    LET kind == Probe(d, i)
        s0 == [Logged(s, i, kind) EXCEPT !.hw = @ \cup {"open"}]
        h == s.nextId + 1
        s1 == [s0 EXCEPT !.nextId = h, !.mine = @ \cup {h}]
        s2 == [s1 EXCEPT !.opened = @ \cup {h}, !.owed = @ \cup {h},
                         !.hw = @ \cup {"read"}]
    IN  CASE kind = "open_raises" -> Raise(s0)
          [] kind = "absent" -> HwRelease(s1, h, fault)
          [] kind = "isopened_raises" ->
                Raise([s1 EXCEPT !.opened = @ \cup {h}, !.owed = @ \cup {h}])
          [] kind = "read_raises" -> Raise(s2)
          [] kind = "zombie" -> HwRelease(s2, h, fault)
          [] kind \in {"works", "set_raises"} ->
                HwRelease([s2 EXCEPT !.val = Append(@, i)], h, fault)

\* for i in range(4): lines 112-122
RECURSIVE DetectLoop(_, _, _, _)
DetectLoop(s, d, i, fault) ==
    IF i >= NumCandidates THEN Ret(s, "list")
    ELSE LET r == Catch(DetectBody(s, d, i, fault), "next")
         IN  IF r.exc THEN r ELSE DetectLoop(r.s, d, i + 1, fault)

\* detect_cameras() without the entry appended at line 109.
DetectCamerasNoSentinel(s, d, fault) == DetectLoop([s EXCEPT !.val = <<>>], d, 0, fault)

\* detect_cameras(): lines 104-124
DetectCameras(s, d, fault) == DetectLoop([s EXCEPT !.val = <<AUTO>>], d, 0, fault)

\* ------------------------------------------------------------------ actions

\* The record of a call: `b` is the object's state when the call started.
CallRec(op, arg, b, r) ==
    [op |-> op, arg |-> arg, ret |-> r.ret, exc |-> r.exc,
     hw |-> r.s.hw, log |-> r.s.log, val |-> r.s.val, raised |-> r.s.raised,
     leaked |-> r.s.owed \cap r.s.mine,
     before |-> [cap |-> b.cap, initialized |-> b.initialized, opened |-> b.opened]]

NoCall == CallRec("none", 0, [cap |-> NULL, initialized |-> FALSE, opened |-> {}],
                  Ret([hw |-> {}, log |-> <<>>, val |-> <<>>, raised |-> FALSE,
                       owed |-> {}, mine |-> {}], "None"))

StoreCam(s) ==
    /\ cap' = s.cap
    /\ initialized' = s.initialized
    /\ opened' = s.opened
    /\ owed' = s.owed
    /\ nextId' = s.nextId
    /\ tested' = s.tested
    /\ lastGood' = s.lastGood

Store(op, arg, r) ==
    /\ StoreCam(r.s)
    /\ call' = CallRec(op, arg, Cam, r)

\* SafeCamera(): lines 11-20, on a transport of the family explored
Init ==
    /\ dev \in Transports
    /\ cap = NULL
    /\ initialized = FALSE
    /\ opened = {}
    /\ owed = {}
    /\ nextId = 0
    /\ tested = {}
    /\ lastGood = NULL
    /\ opens = 0
    /\ detects = 0
    /\ call = NoCall
    /\ hasSession = FALSE
    /\ camera_active = FALSE
    /\ last_capture = NoFrame
    /\ available_cameras = <<>>
    /\ pc = "idle"
    /\ rendered = {}
    /\ constructed = 1
    /\ captures = 0
    /\ pressed = "none"

\* detect_cameras shares no state with a SafeCamera object: Spec explores the
\* calls on the object and the enumeration apart, SpecUI in main()'s order.
CallInitialize ==
    /\ detects = 0
    /\ opens < MaxOpens
    /\ \E index \in Indices, fault \in BOOLEAN :
          Store("initialize", index, Initialize(Cam, dev, index, fault))
    /\ opens' = opens + 1
    /\ UNCHANGED <<dev, detects, uiVars>>

CallSetResolution ==
    /\ detects = 0
    /\ \E out \in {"ok", "raise"} : Store("set_resolution", 0, SetResolution(Cam, out))
    /\ UNCHANGED <<dev, opens, detects, uiVars>>

CallRead ==
    /\ detects = 0
    /\ \E out \in {"frame", "fail", "raise"} : Store("read", 0, Read(Cam, out))
    /\ UNCHANGED <<dev, opens, detects, uiVars>>

CallRelease ==
    /\ detects = 0
    /\ \E fault \in BOOLEAN : Store("release", 0, Release(Cam, fault))
    /\ UNCHANGED <<dev, opens, detects, uiVars>>

CallDetectCameras ==
    /\ detects < MaxDetects
    /\ call.op \in {"none", "detect_cameras"}
    /\ \E fault \in BOOLEAN : Store("detect_cameras", 0, DetectCameras(Cam, dev, fault))
    /\ detects' = detects + 1
    /\ UNCHANGED <<dev, opens, uiVars>>

Next ==
    \/ CallInitialize
    \/ CallSetResolution
    \/ CallRead
    \/ CallRelease
    \/ CallDetectCameras

Spec == Init /\ [][Next]_vars

\* ------------------------------------------------------------------- main()
\* One script run is one action: the runtime re-executes main() for a UI
\* event and the run either ends (pc = "idle") or stays in the preview loop
\* (pc = "loop") until the next event replaces it.

\* The page of a UI session before its first script run.
InitUI ==
    /\ dev \in Transports
    /\ cap = NULL
    /\ initialized = FALSE
    /\ opened = {}
    /\ owed = {}
    /\ nextId = 0
    /\ tested = {}
    /\ lastGood = NULL
    /\ opens = 0
    /\ detects = 0
    /\ call = NoCall
    /\ hasSession = FALSE
    /\ camera_active = FALSE
    /\ last_capture = NoFrame
    /\ available_cameras = <<>>
    /\ pc = "idle"
    /\ rendered = {}
    /\ constructed = 0
    /\ captures = 0
    /\ pressed = "none"

\* Line 151 without its test: every run takes the branch of the first run.
EveryRunIsFirst == TRUE

\* line 151: 'camera' not in st.session_state
FirstRun == ~hasSession

\* Lines 190-195 without the test of initialize()'s result.
StartedRegardless(start, ret) == start

\* lines 190-195: the start button was pressed and initialize() returned True
Started(start, ret) == start /\ ret = "True"

\* Lines 207-211 without the test of read()'s result.
CapturedRegardless(capture, ret) == capture

\* lines 207-211: the capture button was pressed and read() returned a frame
Captured(capture, ret) == capture /\ ret = "True"

\* A run that goes on to the last-capture section without the loop.
PreviewLoopSkipped(active) == FALSE

\* lines 223-225: the run enters the preview loop
PreviewLoop(active) == active

\* main(): lines 137-255, up to the preview loop, for the pressed button
\* `event`, the selected catalog index `sel` and the transport's answers.
Run(event, sel, fault, rout, sout) ==
    \* lines 151-156
    \E fresh \in {FirstRun} :
    \E det \in {IF fresh THEN DetectCameras(Fresh(Cam), dev, fault) ELSE Ret(Cam, "None")} :
    \* lines 189-203
    \E ini \in {Initialize(Fresh(det.s), dev, sel, fault)} :
    \E sr \in {SetResolution(ini.s, sout)}, rel \in {Release(Fresh(det.s), fault)} :
    \E active0 \in {IF fresh THEN FALSE ELSE camera_active} :
    \E last0 \in {IF fresh THEN NoFrame ELSE last_capture} :
    \E start \in {~active0 /\ event = "start"}, stop \in {active0 /\ event = "stop"} :
    \E started \in {Started(start, ini.ret)} :
    \E s1 \in {IF started THEN sr.s ELSE IF start THEN ini.s ELSE IF stop THEN rel.s ELSE det.s} :
    \E active1 \in {IF started THEN TRUE ELSE IF stop THEN FALSE ELSE active0} :
    \* lines 206-214
    \E capture \in {active1 /\ event = "capture"} :
    \E rd \in {Read(Fresh(s1), rout)} :
    \E captured \in {Captured(capture, rd.ret)} :
    \E last1 \in {IF captured THEN captures + 1 ELSE last0} :
    \* lines 223-225: the preview loop is entered
    \E looping \in {PreviewLoop(active1)} :
    \* lines 238-255; st.rerun() runs the script again with no button pressed
    \E clear \in {~looping /\ last1 # NoFrame /\ event = "clear"} :
    \E sidebar \in {{IF active0 THEN "stop" ELSE "start"}
                    \cup (IF active1 THEN {"capture"} ELSE {})} :
        /\ StoreCam(IF capture THEN rd.s ELSE s1)
        /\ call' = IF capture THEN CallRec("read", 0, s1, rd)
                   ELSE IF started THEN CallRec("initialize", sel, det.s, [ini EXCEPT !.s = sr.s])
                   ELSE IF start THEN CallRec("initialize", sel, det.s, ini)
                   ELSE IF stop THEN CallRec("release", 0, det.s, rel)
                   ELSE IF fresh THEN CallRec("detect_cameras", 0, Cam, det)
                   ELSE NoCall
        /\ hasSession' = TRUE
        /\ camera_active' = active1
        /\ last_capture' = IF clear THEN NoFrame ELSE last1
        /\ available_cameras' = IF fresh THEN det.s.val ELSE available_cameras
        /\ pc' = IF looping THEN "loop" ELSE "idle"
        /\ rendered' = IF looping THEN sidebar
                       ELSE IF clear THEN {"start"}
                       ELSE sidebar \cup (IF last1 # NoFrame THEN {"clear"} ELSE {})
        /\ constructed' = IF fresh THEN constructed + 1 ELSE constructed
        /\ detects' = IF fresh THEN detects + 1 ELSE detects
        /\ opens' = IF start THEN opens + 1 ELSE opens
        /\ captures' = IF captured THEN captures + 1 ELSE captures
        /\ pressed' = event
        /\ UNCHANGED dev

\* The first page load, or a widget other than a button changed.
RunLoad ==
    \E fault \in BOOLEAN : Run("none", 0, fault, "fail", "ok")

\* "Iniciar Camera" pressed
RunStart ==
    /\ "start" \in rendered
    /\ opens < MaxOpens
    /\ \E k \in DOMAIN available_cameras, fault \in BOOLEAN, sout \in {"ok", "raise"} :
          Run("start", available_cameras[k], fault, "fail", sout)

\* "Parar Camera" pressed
RunStop ==
    /\ "stop" \in rendered
    /\ \E fault \in BOOLEAN : Run("stop", 0, fault, "fail", "ok")

\* "Capturar Imagem" pressed
RunCapture ==
    /\ "capture" \in rendered
    /\ captures < MaxCaptures
    /\ \E rout \in {"frame", "fail", "raise"} : Run("capture", 0, FALSE, rout, "ok")

\* "Limpar ultima captura" pressed
RunClear ==
    /\ "clear" \in rendered
    /\ Run("clear", 0, FALSE, "fail", "ok")

\* One iteration of the preview loop, lines 225-234; `disp` is what showing
\* the frame (cvtColor, video_placeholder.image) does.
LoopIter ==
    /\ pc = "loop"
    /\ \E rout \in {"frame", "fail", "raise"}, disp \in {"ok", "raise"}, fault \in BOOLEAN :
       \E rd \in {Read(Fresh(Cam), rout)} :
       \E err \in {camera_active /\ rd.ret = "True" /\ disp = "raise"} :
       \E rel \in {Release(Fresh(rd.s), fault)} :
       \E done \in {err \/ ~camera_active} :
          /\ StoreCam(IF err THEN rel.s ELSE IF camera_active THEN rd.s ELSE Cam)
          /\ call' = IF err THEN CallRec("release", 0, rd.s, rel)
                     ELSE IF camera_active THEN CallRec("read", 0, Cam, rd)
                     ELSE NoCall
          /\ camera_active' = IF err THEN FALSE ELSE camera_active
          /\ pc' = IF done THEN "idle" ELSE "loop"
          /\ rendered' = IF done /\ last_capture # NoFrame
                         THEN rendered \cup {"clear"} ELSE rendered
    /\ UNCHANGED <<hasSession, last_capture, available_cameras, constructed, captures,
                   pressed, dev, opens, detects>>

NextUI ==
    \/ RunLoad
    \/ RunStart
    \/ RunStop
    \/ RunCapture
    \/ RunClear
    \/ LoopIter

SpecUI == InitUI /\ [][NextUI]_vars

\* ------------------------------------------------------------------- claims

RaisingKinds == {"open_raises", "isopened_raises", "set_raises", "read_raises"}

\* C1: whenever the object is at rest, initialized implies that cap is a
\* handle and is the one returned by the last successful open attempt, and
\* not initialized implies that cap is None.
C1_HandleInvariant ==
    /\ initialized => (cap # NULL /\ cap = lastGood)
    /\ ~initialized => cap = NULL

\* C2: at most one opened handle awaits its release, and initialize starts
\* no open attempt while the handle it held, or one it opened, awaits release.
C2_AtMostOneOpenHandle ==
    /\ Cardinality(owed) <= 1
    /\ call.op = "initialize" => \A k \in DOMAIN call.log : call.log[k].held = 0

\* C3: an initialize that returns False leaves the session not initialized
\* and leaves none of the handles it held or opened unreleased.
C3_FailedOpenLeavesClosed ==
    (call.op = "initialize" /\ call.ret = "False") =>
        (~initialized /\ call.leaked = {})

\* C4: a handle that opened but failed its test read is never the handle of
\* an initialized session: initialize does not return True on it, releases
\* it and goes on to the next variant, so initialized implies that cap is a
\* handle whose test read succeeded.
C4_OnlyTestedHandleAccepted ==
    /\ call.op = "initialize" =>
          \A k \in DOMAIN call.log :
              call.log[k].kind = "zombie" =>
                  /\ "release" \in call.hw
                  /\ k < Len(call.log) \/ (k = Len(Attempts(call.arg)) /\ call.ret = "False")
    /\ initialized => cap \in tested

\* The variant list as the specification describes it: <<index, backend>> pairs.
ClaimedVariants(index) ==
    << <<index, CAP_ANY>>, <<index, CAP_V4L>>, <<index, CAP_V4L2>>,
       <<AUTO, CAP_ANY>>, <<AUTO, CAP_V4L>>, <<AUTO, CAP_V4L2>> >>

\* The transport of scenario A: only index 0 with backend V4L2 works.
OnlyV4L2AtZero == [r \in Pairs |-> IF r = <<0, CAP_V4L2>> THEN "works" ELSE "absent"]

\* The variants of that list that open and read on the transport.
ClaimedWorking(d, index) ==
    { k \in DOMAIN ClaimedVariants(index) :
        ProbePair(d, ClaimedVariants(index)[k][1], ClaimedVariants(index)[k][2]) = "works" }

\* C5: initialize tries, in order, the requested index with the default
\* backend, with V4L and with V4L2, then index -1 with the same backends, and
\* binds the session to the first of them that opens and reads, trying none
\* after it; on a transport where only index 0 with V4L2 works, a request for
\* index 2 succeeds.
C5_VariantOrder ==
    call.op = "initialize" =>
        /\ \A k \in DOMAIN call.log :
              call.log[k].kind = "works" => (k = Len(call.log) /\ call.ret = "True")
        /\ ClaimedWorking(dev, call.arg) = {} => call.ret = "False"
        /\ \A k \in ClaimedWorking(dev, call.arg) :
              (\A j \in ClaimedWorking(dev, call.arg) : k <= j) =>
                  (call.ret = "True" /\ Len(call.log) = k /\ initialized /\ cap = lastGood)
        /\ (dev = OnlyV4L2AtZero /\ call.arg = EmptySlot) =>
              (call.ret = "True" /\ initialized)

\* C6: no call lets an exception out; a call in which a hardware call raised
\* still returns, with its failure value unless a later open attempt
\* succeeded; and an initialize that did not succeed tried every variant.
C6_NoExceptionEscapes ==
    /\ ~call.exc
    /\ call.ret # "raised"
    /\ (call.op = "read" /\ call.raised) => call.ret = "False"
    /\ (call.op = "set_resolution" /\ call.raised) => call.ret = "None"
    /\ (call.op = "release") => call.ret = "None"
    /\ (call.op = "detect_cameras") =>
          (call.ret = "list" /\ Len(call.log) = NumCandidates)
    /\ (call.op = "initialize") =>
          \/ call.ret = "True" /\ call.log[Len(call.log)].kind = "works"
          \/ call.ret = "False" /\ Len(call.log) = Len(Attempts(call.arg))

\* An attempt of initialize raised and a later attempt still succeeded.
C6_Witness ==
    /\ call.op = "initialize"
    /\ call.raised
    /\ call.ret = "True"
    /\ \E k \in DOMAIN call.log : call.log[k].kind \in RaisingKinds /\ k < Len(call.log)

\* C7: release() returns without raising and leaves the session closed
\* (initialized False, cap None), also when the handle's release fails.
C7_ReleaseAlwaysCloses ==
    call.op = "release" => (~call.exc /\ ~initialized /\ cap = NULL)

\* C8: a release() that follows a release() changes nothing, and a release()
\* on a session that never opened makes no hardware release, raises nothing
\* and leaves the session closed.
C8_ReleaseIdempotent ==
    /\ [][(call.op = "release" /\ call'.op = "release") =>
              (cap' = cap /\ initialized' = initialized /\ opened' = opened)]_vars
    /\ []((call.op = "release" /\ opens = 0) =>
              (~call.exc /\ "release" \notin call.hw /\ ~initialized /\ cap = NULL))

\* C9: a step in which read() fails on an initialized session, from the
\* capture button or from the preview loop, leaves cap, initialized, the
\* opened handles and camera_active as they were; camera_active is cleared
\* only by a step that ends in release() (stop, or the loop's except clause),
\* and initialized is cleared only by a step that releases the handle.
C9_FailedReadKeepsSession ==
    [][/\ (call'.op = "read" /\ call'.ret = "False" /\ initialized) =>
            /\ cap' = cap
            /\ initialized' = initialized
            /\ opened' = opened
            /\ camera_active' = camera_active
       /\ (camera_active /\ ~camera_active') => call'.op = "release"
       /\ (initialized /\ ~initialized') => "release" \in call'.hw]_vars

\* The preview loop has just had a failed read on an open, active session.
C9_Witness ==
    /\ pc = "loop"
    /\ call.op = "read"
    /\ call.ret = "False"
    /\ "read" \in call.hw
    /\ call.before.initialized
    /\ initialized
    /\ cap \in opened
    /\ camera_active

\* C10: read() on a session that is not initialized returns False with no
\* hardware read and leaves the object as it was.
C10_ReadWhileClosed ==
    (call.op = "read" /\ ~call.before.initialized) =>
        /\ call.ret = "False"
        /\ ~call.exc
        /\ call.hw = {}
        /\ cap = call.before.cap
        /\ initialized = call.before.initialized
        /\ opened = call.before.opened

\* read() was called after a failed initialize that left a handle in cap.
C10_Witness ==
    /\ call.op = "read"
    /\ ~call.before.initialized
    /\ call.before.cap # NULL
    /\ opens > 0

\* C11: set_resolution() on a session that is not initialized, after a failed
\* initialize or after release() included, returns (None, None), makes no
\* hardware call and leaves the object as it was.
C11_SetResolutionWhileClosed ==
    (call.op = "set_resolution" /\ ~call.before.initialized) =>
        /\ call.ret = "None"
        /\ ~call.exc
        /\ call.hw = {}
        /\ cap = call.before.cap
        /\ initialized = call.before.initialized
        /\ opened = call.before.opened

\* set_resolution() was called after a failed initialize that left a handle in cap.
C11_Witness ==
    /\ call.op = "set_resolution"
    /\ ~call.before.initialized
    /\ call.before.cap # NULL
    /\ call.ret = "None"
    /\ opens > 0

\* C12: detect_cameras leaves none of the handles it opened unreleased, and
\* starts no probe while the handle of an earlier probe awaits its release.
C12_ProbeNeverLeaks ==
    call.op = "detect_cameras" =>
        /\ call.leaked = {}
        /\ \A k \in DOMAIN call.log : call.log[k].held = 0

\* C13: the list detect_cameras returns is never empty and starts with the
\* auto index, on every transport.
C13_CatalogNeverEmpty ==
    call.op = "detect_cameras" =>
        /\ call.ret = "list"
        /\ Len(call.val) >= 1
        /\ call.val[1] = AUTO

\* detect_cameras ran on a transport where a probe raised and none succeeded.
C13_Witness ==
    /\ call.op = "detect_cameras"
    /\ call.raised
    /\ \A k \in DOMAIN call.log : call.log[k].kind \notin {"works", "set_raises"}
    /\ call.val = <<AUTO>>

\* The backends in the order of the specification: default first.
BackendOrder == <<CAP_ANY, CAP_V4L, CAP_V4L2>>

\* The backends, by position in that order, that open slot i and deliver a frame.
Delivering(d, i) ==
    { n \in DOMAIN BackendOrder : ProbePair(d, i, BackendOrder[n]) \in {"works", "set_raises"} }

\* C14: after the auto entry the list holds exactly the slots that some
\* backend opens and reads, in ascending order, each as the descriptor of the
\* first backend that succeeded on it.
C14_CatalogContents ==
    call.op = "detect_cameras" =>
        /\ { DecodeIndex(call.val[k]) : k \in 2 .. Len(call.val) }
              = { i \in Slots : Delivering(dev, i) # {} }
        /\ \A j, k \in 2 .. Len(call.val) :
              j < k => DecodeIndex(call.val[j]) < DecodeIndex(call.val[k])
        /\ \A k \in 2 .. Len(call.val) :
              \E n \in Delivering(dev, DecodeIndex(call.val[k])) :
                  /\ DecodeBackend(call.val[k]) = BackendOrder[n]
                  /\ \A m \in Delivering(dev, DecodeIndex(call.val[k])) : n <= m

\* C15: in one UI session detect_cameras runs exactly once and exactly one
\* SafeCamera is constructed, both in the first script run; no later run and
\* no iteration of the preview loop does either again.
C15_EnumerateAndConstructOnce ==
    /\ [](hasSession => (detects = 1 /\ constructed = 1))
    /\ [](~hasSession => (detects = 0 /\ constructed = 0))
    /\ [][hasSession => (detects' = detects /\ constructed' = constructed
                          /\ available_cameras' = available_cameras)]_vars

\* The session has seen a start, a capture and runs the preview loop.
C15_Witness ==
    /\ hasSession
    /\ detects = 1
    /\ opens = MaxOpens
    /\ captures > 0
    /\ pc = "loop"
    /\ call.op = "read"

\* C16: the preview loop runs only while camera_active is set, and the step
\* that handles the operator's stop ends the loop and leaves the handle
\* released and the session closed (initialized False, cap None).
C16_StopEndsLoopAndCloses ==
    /\ [](pc = "loop" => camera_active)
    /\ [][(camera_active /\ pressed' = "stop" /\ call'.op = "release") =>
              /\ pc' = "idle"
              /\ ~camera_active'
              /\ ~initialized'
              /\ cap' = NULL
              /\ cap \notin opened']_vars

\* C17: camera_active implies that the session is initialized on a handle
\* that is opened, and every read() of the capture button or the preview
\* loop is made on such a session.
C17_ActiveImpliesOpen ==
    /\ camera_active => (initialized /\ cap # NULL /\ cap \in opened)
    /\ (hasSession /\ call.op = "read") =>
          (call.before.initialized /\ call.before.cap \in call.before.opened)

\* The capture button was served on an active session that had a frame captured before.
C17_Witness ==
    /\ camera_active
    /\ pressed = "capture"
    /\ call.op = "read"
    /\ "read" \in call.hw
    /\ call.ret = "False"
    /\ captures > 0

\* C18: last_capture is None or one frame; it changes only when the capture
\* button's read() succeeded, to the frame just read, or when the clear
\* button is handled, to None; a successful capture always overwrites it and
\* a handled clear always empties it.
C18_LastCaptureChanges ==
    /\ [](last_capture \in {NoFrame} \cup (1 .. MaxCaptures))
    /\ [][/\ (last_capture' # last_capture) =>
               (\/ /\ pressed' = "capture"
                   /\ call'.op = "read"
                   /\ call'.ret = "True"
                   /\ captures' = captures + 1
                   /\ last_capture' = captures'
                \/ /\ pressed' = "clear"
                   /\ "clear" \in rendered
                   /\ last_capture' = NoFrame)
          /\ (captures' # captures) => (last_capture' = captures')
          /\ (pc = "idle" /\ "clear" \in rendered /\ ~camera_active /\ pressed' = "clear") =>
               (last_capture' = NoFrame)]_vars

\* A capture whose read failed was served and the frame captured before it is kept.
C18_Witness ==
    /\ pressed = "capture"
    /\ call.op = "read"
    /\ call.ret = "False"
    /\ captures = 1
    /\ last_capture = 1

\* C19: when a script run has finished with camera_active False, the session
\* is closed (initialized False, cap None) and the initialize() of a failed
\* start has left none of its handles unreleased.
C19_InactiveImpliesClosed ==
    (hasSession /\ pc = "idle" /\ ~camera_active) =>
        /\ ~initialized
        /\ cap = NULL
        /\ (call.op = "initialize" => call.leaked = {})

\* C20: a script run goes past the preview loop only with camera_active
\* False: while it is True the run stays in the loop, the clear button is not
\* on the page and last_capture is not emptied.
C20_LastCaptureSectionOnlyInactive ==
    /\ [](pc = "idle" => ~camera_active)
    /\ [](camera_active => "clear" \notin rendered)
    /\ []((pc = "idle" /\ hasSession /\ last_capture # NoFrame) => "clear" \in rendered)
    /\ [][(last_capture # NoFrame /\ last_capture' = NoFrame) =>
              (~camera_active /\ ~camera_active')]_vars

\* A frame was captured and the preview loop still runs: the clear button is not shown.
C20_Witness ==
    /\ camera_active
    /\ pc = "loop"
    /\ last_capture # NoFrame
    /\ "clear" \notin rendered

====
